---- MODULE Spec2Model ----
(***************************************************************************)
(* Request client of the wardrobe front end: apiRequest and                *)
(* apiRequestFormData (services/apiService.ts), the credential store       *)
(* (utils/storage.ts) and the single-slot unauthorized callback.           *)
(*                                                                         *)
(* JavaScript values are tagged records; strings are sequences of tokens   *)
(* (words or characters), so that truthiness, includes() and substring()   *)
(* are computed rather than assumed.                                       *)
(***************************************************************************)
EXTENDS Integers, Sequences, FiniteSets, TLC

\* ------------------------------------------------------------------ bounds
\* number of distinct bearer tokens the backend may issue in a run
MaxTokens == 2
\* number of files in the largest batch
MaxFiles == 3
\* how many characters a long plain-text error body exceeds the limit by
TextOverrun == 1
\* source images are up to MaxDim pixels wide and high
MaxDim == 5
\* the lower limits of the target size go up to MinSide, the upper limits
\* from MinSide up to MaxSide
MinSide == 2
MaxSide == 4
\* the original file is up to MaxFileMB megabytes
MaxFileMB == 7
\* how many megabytes an encoding may exceed the budget by
BlobOverrun == 2
\* pages the backend reports for a clothing query
MaxPages == 2
\* list requests the Wardrobe component has in flight at once
MaxInFlight == 2

\* ------------------------------------------------------- JavaScript values
Undefined == [ty |-> "undefined"]
Null == [ty |-> "null"]
Num(n) == [ty |-> "number", n |-> n]
Str(s) == [ty |-> "string", s |-> s]
Bool(b) == [ty |-> "boolean", b |-> b]

\* ToBoolean of the value kinds that occur
Truthy(v) ==
  CASE v.ty = "undefined" -> FALSE
    [] v.ty = "null" -> FALSE
    [] v.ty = "number" -> v.n # 0
    [] v.ty = "string" -> Len(v.s) > 0
    [] v.ty = "boolean" -> v.b
    [] OTHER -> TRUE

\* a || b
JsOr(a, b) == IF Truthy(a) THEN a ELSE b

\* typeof v === 'object'  (null, arrays and plain objects)
TypeofObject(v) == v.ty \in {"null", "object", "array"}

\* property read v.f on a non-null value: undefined when v has no such field
Get(v, f) == IF v.ty = "object" /\ f \in DOMAIN v THEN v[f] ELSE Undefined

\* String.prototype.includes on token sequences
Includes(s, w) == \E i \in 1..Len(s) : s[i] = w

\* text.length > 200 ? text.substring(0, 200) : text
TruncateLimit == 200
Truncate(s) == IF Len(s) > TruncateLimit THEN SubSeq(s, 1, TruncateLimit) ELSE s

\* `${n}` for the numbers that occur in messages
NumText(v) == IF v.ty = "number" THEN ToString(v.n) ELSE v.ty

\* ------------------------------------------------ credential store (storage)
\* localStorage restricted to the two authentication keys
EmptyStorage == [token |-> Null, userInfo |-> Null]

SaveToken(st, t) == [st EXCEPT !.token = t]
LoadToken(st) == st.token
ClearToken(st) == [st EXCEPT !.token = Null]
SaveUserInfo(st, u) == [st EXCEPT !.userInfo = u]
ClearUserInfo(st) == [st EXCEPT !.userInfo = Null]

Tokens == {Str(<<"tok", ToString(i)>>) : i \in 1..MaxTokens}
\* the identity record the login response carries next to a token
UserFor(t) == [ty |-> "object", userId |-> t.s]

\* ------------------------------------------------------------ error values
\* cls: the constructor; name: the .name property
MkError(cls, name, message, code, reason, raw) ==
  [cls |-> cls, name |-> name, message |-> message, code |-> code,
   reason |-> reason, rawResponse |-> raw]

UnauthorizedError(message) ==
  MkError("UnauthorizedError", "UnauthorizedError", message, Undefined, Undefined, Undefined)
BusinessError(message, code, reason, raw) ==
  MkError("BusinessError", "BusinessError", message, code, reason, raw)
PlainError(message) == MkError("Error", "Error", message, Undefined, Undefined, Undefined)

\* what the platform throws
SyntaxErrorOf(message) == MkError("SyntaxError", "SyntaxError", message, Undefined, Undefined, Undefined)
TypeErrorOf(message) == MkError("TypeError", "TypeError", message, Undefined, Undefined, Undefined)
AbortError ==
  MkError("DOMException", "AbortError", <<"The", "user", "aborted", "a", "request.">>,
          Undefined, Undefined, Undefined)

\* e instanceof Error: every class above has Error.prototype on its chain
InstanceofError(e) ==
  e.cls \in {"Error", "TypeError", "SyntaxError", "DOMException", "UnauthorizedError", "BusinessError"}
InstanceofTypeError(e) == e.cls = "TypeError"

\* the literal of line 102, transliterated (the parser accepts ASCII strings only)
ExpiredMsg == <<"login", "expired,", "please", "log", "in", "again">>
TimeoutMsg == <<"Request", "timeout.", "Please", "check", "your", "connection.">>
UnreachableMsg ==
  <<"Cannot", "connect", "to", "backend", "service.", "Please", "check", "if", "the", "server", "is", "running.">>
InvalidFormatMsg == <<"Invalid", "response", "format", "from", "server:", "expected", "JSON">>
EmptyResponseMsg == <<"Empty", "response", "from", "server">>
OperationFailedMsg == <<"Operation", "failed">>
\* the template of line 135: "request failed, error code: ${code}"
CodeMsg(code) == <<"request", "failed,", "error", "code:", NumText(code)>>
HttpMsg(status) == <<"HTTP", ToString(status)>>
ApiFailedMsg(status) == <<"API", "request", "failed:", ToString(status)>>

\* --------------------------------------------------------------- responses
\* A body is the text on the wire: either the serialisation of a JSON value
\* (json = TRUE, value = the value it denotes) or some other text.
JsonBody(v) == [json |-> TRUE, value |-> v]
TextBody(chars) == [json |-> FALSE, chars |-> chars]

Response(status, statusText, body) ==
  [status |-> status, statusText |-> statusText, body |-> body]

\* response.ok
ResponseOk(r) == r.status \in 200..299

\* JSON.parse(text)
JSONParse(raw) ==
  IF raw.json
    THEN [ok |-> TRUE, value |-> raw.value]
    ELSE [ok |-> FALSE,
          error |-> SyntaxErrorOf(IF raw.chars = <<>>
                                    THEN <<"Unexpected", "end", "of", "JSON", "input">>
                                    ELSE <<"Unexpected", "token">>)]

\* the characters of a body text
RawChars(raw) == IF raw.json THEN <<"{", "json", "}">> ELSE raw.chars

\* response.json(): reads the body, then parses it
ResponseJson(r) == JSONParse(r.body)

\* response.text(); a body can be read once only: a second read rejects
ResponseText(r, bodyUsed) ==
  IF bodyUsed
    THEN [ok |-> FALSE, error |-> TypeErrorOf(<<"body", "stream", "already", "read">>)]
    ELSE [ok |-> TRUE, text |-> r.body]

\* outcomes of a (part of a) call
Return(v) == [state |-> "resolved", value |-> v]
Throw(e) == [state |-> "rejected", error |-> e]

\* jsonData.message || jsonData.error || jsonData.msg
BackendMessage(j) == JsOr(JsOr(Get(j, "message"), Get(j, "error")), Get(j, "msg"))

\* ------------------------------------------------------------- apiRequest
\* the headers object: a function from header names to values
NoHeaders == [h \in {} |-> Undefined]
\* options.headers as the endpoint functions pass it: none of them sets any
CallerHeaders == {NoHeaders}

Bearer(tok) == Str(<<"Bearer">> \o tok.s)

\* headers built without looking whether a token is there
BuildHeadersUnchecked(tok, optHeaders) ==
  ("Authorization" :> (IF Truthy(tok) THEN Bearer(tok) ELSE Str(<<"Bearer", "null">>)))
    @@ optHeaders @@ ("Content-Type" :> Str(<<"application/json">>))

\* lines 65-77: { 'Content-Type': ..., ...options.headers }, then Authorization
BuildHeaders(tok, optHeaders) ==
  LET base == optHeaders @@ ("Content-Type" :> Str(<<"application/json">>))
  IN IF Truthy(tok) THEN ("Authorization" :> Bearer(tok)) @@ base ELSE base

\* lines 105-124: the message of the error thrown for a non-2xx response
NonOkMessage(r) ==
  LET statusText == Str(r.statusText)
      parsed == ResponseJson(r)
      \* errorData.message on null throws a TypeError inside the try
      readable == parsed.ok /\ parsed.value.ty # "null"
      fromText ==
        LET t == ResponseText(r, TRUE)
        IN IF t.ok
             THEN IF Truthy(Str(RawChars(t.text)))
                    THEN Str(Truncate(RawChars(t.text)))
                    ELSE statusText
             ELSE JsOr(statusText, Str(HttpMsg(r.status)))
      errorMessage ==
        IF readable THEN JsOr(BackendMessage(parsed.value), statusText) ELSE fromText
  IN JsOr(errorMessage, Str(ApiFailedMsg(r.status))).s

\* a code check that lets a falsy code through: if (jsonData.code && ...)
CodeFailsTruthyOnly(jsonData) ==
  Truthy(Get(jsonData, "code")) /\ Get(jsonData, "code") # Num(200)

\* line 134: jsonData.code !== undefined && jsonData.code !== 200
CodeFails(jsonData) ==
  Get(jsonData, "code") # Undefined /\ Get(jsonData, "code") # Num(200)

\* a success check by falsiness: if (!jsonData.success)
SuccessFailsFalsy(jsonData) == ~Truthy(Get(jsonData, "success"))

\* line 141: jsonData.success === false
SuccessFails(jsonData) == Get(jsonData, "success") = Bool(FALSE)

\* a data check that also skips null: data !== undefined && data !== null
HasDataNonNull(jsonData) ==
  Get(jsonData, "data") # Undefined /\ Get(jsonData, "data") # Null

\* line 148: jsonData.data !== undefined
HasData(jsonData) == Get(jsonData, "data") # Undefined

\* lines 131-156: envelope checks on the parsed body
UnwrapEnvelope(jsonData) ==
  IF Truthy(jsonData) /\ TypeofObject(jsonData)
    THEN IF CodeFails(jsonData)
           THEN Throw(BusinessError(
                  JsOr(BackendMessage(jsonData), Str(CodeMsg(Get(jsonData, "code")))).s,
                  Get(jsonData, "code"), Get(jsonData, "reason"), jsonData))
         ELSE IF SuccessFails(jsonData)
           THEN Throw(BusinessError(
                  JsOr(BackendMessage(jsonData), Str(OperationFailedMsg)).s,
                  Undefined, Get(jsonData, "reason"), jsonData))
         ELSE IF HasData(jsonData)
           THEN Return(Get(jsonData, "data"))
         ELSE Return(jsonData)
    ELSE Return(jsonData)

\* lines 157-165: the catch around the parse and the envelope checks
InnerCatch(parseError) ==
  IF InstanceofError(parseError)
    THEN Throw(parseError)
    ELSE Throw(PlainError(InvalidFormatMsg))

\* lines 126-165: a 2xx response
OkOutcome(r) ==
  LET parsed == ResponseJson(r)
      inTry == IF parsed.ok THEN UnwrapEnvelope(parsed.value) ELSE Throw(parsed.error)
  IN IF inTry.state = "rejected" THEN InnerCatch(inTry.error) ELSE inTry

\* an outer catch without the AbortError branch
OuterCatchNoTimeout(error) ==
  IF error.cls \in {"UnauthorizedError", "BusinessError"}
    THEN Throw(error)
  ELSE IF InstanceofTypeError(error) /\ Includes(error.message, "fetch")
    THEN Throw(PlainError(UnreachableMsg))
  ELSE Throw(error)

\* an outer catch that looks for 'Fetch' instead of 'fetch'
OuterCatchCaseMismatch(error) ==
  IF error.cls \in {"UnauthorizedError", "BusinessError"}
    THEN Throw(error)
  ELSE IF InstanceofError(error) /\ error.name = "AbortError"
    THEN Throw(PlainError(TimeoutMsg))
  ELSE IF InstanceofTypeError(error) /\ Includes(error.message, "Fetch")
    THEN Throw(PlainError(UnreachableMsg))
  ELSE Throw(error)

\* lines 166-178: the catch around the whole request
OuterCatch(error) ==
  IF error.cls \in {"UnauthorizedError", "BusinessError"}
    THEN Throw(error)
  ELSE IF InstanceofError(error) /\ error.name = "AbortError"
    THEN Throw(PlainError(TimeoutMsg))
  ELSE IF InstanceofTypeError(error) /\ Includes(error.message, "fetch")
    THEN Throw(PlainError(UnreachableMsg))
  ELSE Throw(error)

\* lines 105-165 under the outer catch: what the call settles with once the
\* body of a non-401 response is there
BodyOutcome(r) ==
  LET inner == IF ~ResponseOk(r) THEN Throw(PlainError(NonOkMessage(r))) ELSE OkOutcome(r)
  IN IF inner.state = "rejected" THEN OuterCatch(inner.error) ELSE inner

\* ------------------------------------------------------ apiRequestFormData
\* lines 373-379: no Content-Type, Authorization when a token is stored
FormBuildHeaders(tok) ==
  IF Truthy(tok) THEN ("Authorization" :> Bearer(tok)) @@ NoHeaders ELSE NoHeaders

\* lines 409-423: read the text, refuse an empty one, parse it
FormParse(r) ==
  LET t == ResponseText(r, FALSE)
      inTry ==
        IF ~t.ok THEN Throw(t.error)
        ELSE IF ~Truthy(Str(RawChars(t.text))) THEN Throw(PlainError(EmptyResponseMsg))
        ELSE LET parsed == JSONParse(t.text)
             IN IF parsed.ok THEN Return(parsed.value) ELSE Throw(parsed.error)
  IN IF inTry.state = "rejected"
       THEN IF ~ResponseOk(r)
              THEN Throw(PlainError(JsOr(Str(r.statusText), Str(HttpMsg(r.status))).s))
              ELSE Throw(PlainError(InvalidFormatMsg))
       ELSE inTry

\* lines 433-455: envelope checks on the parsed body
FormUnwrapEnvelope(jsonData) ==
  IF Truthy(jsonData) /\ TypeofObject(jsonData)
    THEN IF Get(jsonData, "code") # Undefined /\ Get(jsonData, "code") # Num(200)
           THEN Throw(BusinessError(
                  JsOr(BackendMessage(jsonData), Str(CodeMsg(Get(jsonData, "code")))).s,
                  Get(jsonData, "code"), Get(jsonData, "reason"), jsonData))
         ELSE IF Get(jsonData, "success") = Bool(FALSE)
           THEN Throw(BusinessError(
                  JsOr(BackendMessage(jsonData), Str(OperationFailedMsg)).s,
                  Undefined, Get(jsonData, "reason"), jsonData))
         ELSE IF Get(jsonData, "data") # Undefined
           THEN Return(Get(jsonData, "data"))
         ELSE Return(jsonData)
    ELSE Return(jsonData)

\* lines 456-468: the catch around the whole request
FormOuterCatch(error) ==
  IF error.cls \in {"UnauthorizedError", "BusinessError"}
    THEN Throw(error)
  ELSE IF InstanceofError(error) /\ error.name = "AbortError"
    THEN Throw(PlainError(TimeoutMsg))
  ELSE IF InstanceofTypeError(error) /\ Includes(error.message, "fetch")
    THEN Throw(PlainError(UnreachableMsg))
  ELSE Throw(error)

\* lines 408-455 under the outer catch
FormBodyOutcome(r) ==
  LET parsed == FormParse(r)
      inner ==
        IF parsed.state = "rejected" THEN parsed
        ELSE IF ~ResponseOk(r)
          THEN Throw(PlainError(
                 JsOr(JsOr(BackendMessage(parsed.value), Str(r.statusText)),
                      Str(HttpMsg(r.status))).s))
        ELSE FormUnwrapEnvelope(parsed.value)
  IN IF inner.state = "rejected" THEN FormOuterCatch(inner.error) ELSE inner

\* ------------------------------------------------------------------ inputs
Envelope(code, message, error, msg, success, data) ==
  [ty |-> "object", code |-> code, message |-> message, error |-> error,
   msg |-> msg, success |-> success, data |-> data]

\* a payload object and a payload array, opaque to the request client
Payload == [ty |-> "object", category |-> Str(<<"Top">>)]
ArrayValue == [ty |-> "array", items |-> <<Payload>>]

Codes == {Undefined, Num(200), Num(500), Num(0)}
Successes == {Undefined, Bool(FALSE)}
Datas == {Undefined, Null, Payload}
\* message, error and msg of an envelope
MessageTriples ==
  { <<Undefined, Undefined, Undefined>>,
    <<Str(<<"model", "unavailable">>), Undefined, Undefined>>,
    <<Str(<<>>), Str(<<"bad", "input">>), Str(<<"m">>)>> }

Envelopes ==
  { Envelope(c, m[1], m[2], m[3], s, d) :
      c \in Codes, m \in MessageTriples, s \in Successes, d \in Datas }

\* the body {} and a successful wrapped payload
EmptyObject == Envelope(Undefined, Undefined, Undefined, Undefined, Undefined, Undefined)
WrappedPayload == Envelope(Num(200), Undefined, Undefined, Undefined, Undefined, Payload)

ShortText == <<"<html>", "Bad", "Gateway", "</html>">>
LongText == [i \in 1..(TruncateLimit + TextOverrun) |-> "x"]
TextBodies == {TextBody(<<>>), TextBody(ShortText), TextBody(LongText)}

Bodies == {JsonBody(e) : e \in Envelopes} \cup {JsonBody(Null), JsonBody(ArrayValue)} \cup TextBodies

\* bodies of error responses: only message, error and msg are read from them
ErrorBodies ==
  {JsonBody(Envelope(Undefined, m[1], m[2], m[3], Undefined, Undefined)) : m \in MessageTriples}
    \cup {JsonBody(Envelope(Num(500), Str(<<"model", "unavailable">>), Undefined, Undefined,
                            Bool(FALSE), Null))}
    \cup {JsonBody(Null)} \cup TextBodies

Responses ==
  {Response(200, <<"OK">>, b) : b \in Bodies}
    \cup {Response(201, <<"Created">>, b) :
            b \in {JsonBody(WrappedPayload), TextBody(ShortText),
                   JsonBody(Envelope(Num(500), Str(<<"model", "unavailable">>), Undefined,
                                     Undefined, Undefined, Payload))}}
    \cup {Response(401, <<"Unauthorized">>, b) :
            b \in {JsonBody(EmptyObject), JsonBody(WrappedPayload), TextBody(ShortText)}}
    \cup {Response(500, t, b) : t \in {<<"Internal", "Server", "Error">>, <<>>}, b \in ErrorBodies}

\* messages of the TypeError a failing fetch() rejects with, by browser
TransportErrorMessages == {<<"Failed", "to", "fetch">>, <<"Load", "failed">>}

\* ------------------------------------------------------------------- state
VARIABLES
  storage,                 \* localStorage: token and user info
  onUnauthorizedCallback,  \* the module-level callback slot
  showLogin,               \* App state the registered callback sets
  call,                    \* the request in progress or last settled
  lastError,               \* how the call before this one failed, if it did
  auth,                    \* the authRequest call in progress or last settled
  batch,                   \* the batch handler's loop
  img,                     \* the image being normalized
  endpoint,                \* the endpoint function wrapped around the call
  provider,                \* the state of AuthProvider
  wardrobe                 \* the state of the Wardrobe component

vars ==
  <<storage, onUnauthorizedCallback, showLogin, call, lastError, auth, batch, img, endpoint,
    provider, wardrobe>>

\* the callback App registers: () => setShowLogin(true)
ShowLoginCallback == [ty |-> "function", id |-> "showLogin"]

Pending == [state |-> "pending"]
NoResponse == Response(0, <<>>, TextBody(<<>>))
NoError == [settledBy |-> "none", status |-> 0, json |-> FALSE, cls |-> "none", name |-> "none"]
NoFetchError == MkError("none", "none", <<>>, Undefined, Undefined, Undefined)

IdleCall ==
  [pc |-> "idle", kind |-> "json", headers |-> NoHeaders, transport |-> "live",
   timerArmed |-> FALSE, aborted |-> FALSE, fetches |-> 0, response |-> NoResponse,
   settledBy |-> "none", fetchError |-> NoFetchError, callbacks |-> 0, invoked |-> Null,
   seen |-> Null, outcome |-> Pending]

\* the Wardrobe component before it is mounted: the useState initial values
NoWardrobe ==
  [mounted |-> FALSE, filter |-> "all", clothingList |-> <<>>, currentPage |-> 1,
   hasMore |-> TRUE, isLoadingMore |-> FALSE, isLoadingInitial |-> TRUE, inflight |-> {}]

\* no authRequest issued yet
IdleAuth ==
  [pc |-> "idle", endpoint |-> "none", options |-> NoHeaders, headers |-> NoHeaders,
   timerArmed |-> FALSE, response |-> NoResponse, settledBy |-> "none", outcome |-> Pending, result |-> Pending]

\* no batch handler running: isAnalyzing / isUploading is false
IdleBatch ==
  [pc |-> "idle", handler |-> "none", total |-> 0, i |-> 0, inFlight |-> {},
   issued |-> <<>>, outcomes |-> <<>>, isAnalyzing |-> FALSE, analysisError |-> Null,
   currentStep |-> 2, errorsShown |-> {}]
\* compressImage not called yet
NoImage ==
  [pc |-> "none", width |-> 0, height |-> 0, min |-> 0, max |-> 0,
   target |-> [width |-> 0, height |-> 0], quality |-> 0, attempts |-> 0,
   sizes |-> <<>>, result |-> 0]
NoEndpoint == [fn |-> "none", result |-> Pending]

\* AuthProvider before it is mounted: useState(false), useState(null)
NoProvider == [mounted |-> FALSE, isAuthenticated |-> FALSE, token |-> Null]

\* localStorage outlives the page: a returning user starts with a session
StoredSessions == {SaveUserInfo(SaveToken(EmptyStorage, t), UserFor(t)) : t \in Tokens}

Init ==
  /\ storage \in {EmptyStorage} \cup StoredSessions
  /\ onUnauthorizedCallback = Null
  /\ showLogin = FALSE
  /\ call = IdleCall
  /\ lastError = NoError
  /\ auth = IdleAuth
  /\ batch = IdleBatch
  /\ img = NoImage
  /\ endpoint = NoEndpoint
  /\ provider = NoProvider
  /\ wardrobe = NoWardrobe

\* ----------------------------------------------------------------- actions
\* setUnauthorizedCallback(callback), called by App on mount
SetUnauthorizedCallback(callback) ==
  /\ onUnauthorizedCallback' = callback
  /\ UNCHANGED <<storage, showLogin, call, lastError, auth, batch, img, endpoint, provider, wardrobe>>

\* the login prompt is closed by the user
CloseLogin ==
  /\ showLogin
  /\ showLogin' = FALSE
  /\ UNCHANGED <<storage, onUnauthorizedCallback, call, lastError, auth, batch, img, endpoint, provider, wardrobe>>

\* a login answered with a token: token and user info are saved
LoginSuccess(t) ==
  /\ Truthy(t)
  /\ storage' = SaveUserInfo(SaveToken(storage, t), UserFor(t))
  /\ UNCHANGED <<onUnauthorizedCallback, showLogin, call, lastError, auth, batch, img, endpoint, provider, wardrobe>>

Logout ==
  /\ storage' = ClearUserInfo(ClearToken(storage))
  /\ UNCHANGED <<onUnauthorizedCallback, showLogin, call, lastError, auth, batch, img, endpoint, provider, wardrobe>>

\* ------------------------------ the earlier apiRequest (services/apiService)
\* the catch block: UnauthorizedError is rethrown, an abort and a failed
\* fetch get messages of their own
LegacyOuterCatch(error) ==
  IF error.cls = "UnauthorizedError"
    THEN Throw(error)
  ELSE IF InstanceofError(error) /\ error.name = "AbortError"
    THEN Throw(PlainError(TimeoutMsg))
  ELSE IF InstanceofTypeError(error) /\ Includes(error.message, "fetch")
    THEN Throw(PlainError(UnreachableMsg))
  ELSE Throw(error)

\* after the 401 check: a non-2xx status throws the body's message or a
\* default; a 2xx body is returned as parsed, the envelope is not looked at
LegacyBodyOutcome(r) ==
  LET parsed == ResponseJson(r)
      error == IF parsed.ok THEN parsed.value
               ELSE [ty |-> "object", message |-> Str(r.statusText)]
  IN IF ~ResponseOk(r)
       THEN IF error.ty = "null"
              THEN LegacyOuterCatch(TypeErrorOf(<<"Cannot", "read", "properties", "of", "null">>))
              ELSE LegacyOuterCatch(
                     PlainError(JsOr(Get(error, "message"), Str(ApiFailedMsg(r.status))).s))
     ELSE IF parsed.ok THEN Return(parsed.value)
     ELSE Throw(parsed.error)

\* what the caller's catch block saw of a settled call
ErrorSeen(c) ==
  IF c.outcome.state = "rejected"
    THEN [settledBy |-> c.settledBy, status |-> c.response.status,
          json |-> c.response.body.json, cls |-> c.outcome.error.cls,
          name |-> c.outcome.error.name]
    ELSE lastError

\* the synchronous start of apiRequest / apiRequestFormData: read the token,
\* build the headers, arm the timer, call fetch
StartRequest(kind, optHeaders, transport) ==
  /\ call.pc \in {"idle", "settled"}
  /\ call' = [pc |-> "fetching", kind |-> kind,
              headers |-> IF kind \in {"json", "legacy"}
                            THEN BuildHeaders(LoadToken(storage), optHeaders)
                            ELSE FormBuildHeaders(LoadToken(storage)),
              transport |-> transport, timerArmed |-> TRUE, aborted |-> FALSE,
              fetches |-> 1, response |-> NoResponse, settledBy |-> "none",
              fetchError |-> NoFetchError, callbacks |-> 0, invoked |-> Null,
              seen |-> Null, outcome |-> Pending]
  /\ lastError' = ErrorSeen(call)
  /\ endpoint' = NoEndpoint
  /\ UNCHANGED <<storage, onUnauthorizedCallback, showLogin, auth, batch, img, provider, wardrobe>>

CatchOf(kind, error) ==
  CASE kind = "json" -> OuterCatch(error)
    [] kind = "form" -> FormOuterCatch(error)
    [] OTHER -> LegacyOuterCatch(error)

\* a 401 branch that forgets the token
Unauthorized401KeepsToken(st) == ClearUserInfo(st)

\* a 401 branch that forgets the user info
Unauthorized401TokenOnly(st) == ClearToken(st)

\* the 401 branch: what it leaves in the store
Unauthorized401Storage(st) == ClearUserInfo(ClearToken(st))
\* a 401 branch that never looks at the callback slot
Unauthorized401CallbacksNever(callback) == 0

\* the 401 branch: how many times it invokes the registered callback
Unauthorized401Callbacks(callback) == IF Truthy(callback) THEN 1 ELSE 0

\* a 401 branch that invokes the callback before it clears the store
Unauthorized401BranchCallbackFirst == <<"callback", "clearToken", "clearUserInfo", "throw">>

\* the statements of the 401 branch, in the order they are written
Unauthorized401Branch == <<"clearToken", "clearUserInfo", "callback", "throw">>

\* one statement of the 401 branch; s.seen is what the callback found when it
\* was invoked: the store, and whether the call had already thrown
Unauthorized401Step(stmt, callback, s) ==
  CASE stmt = "clearToken" -> [s EXCEPT !.storage = ClearToken(s.storage)]
    [] stmt = "clearUserInfo" -> [s EXCEPT !.storage = ClearUserInfo(s.storage)]
    [] stmt = "callback" ->
         IF Truthy(callback)
           THEN [s EXCEPT !.seen = [storage |-> s.storage, thrown |-> s.thrown]]
           ELSE s
    [] OTHER -> [s EXCEPT !.thrown = TRUE]

\* the branch runs its statements in order and stops at the throw
RECURSIVE Unauthorized401Run(_, _, _)
Unauthorized401Run(stmts, callback, s) ==
  IF stmts = <<>> \/ s.thrown
    THEN s
    ELSE Unauthorized401Run(Tail(stmts), callback, Unauthorized401Step(Head(stmts), callback, s))

\* fetch() resolves with a response: clearTimeout, then the 401 check; any
\* other response goes on to the body
FetchResolve(r) ==
  /\ call.pc = "fetching"
  /\ call.transport = "live"
  /\ IF r.status = 401
       THEN /\ storage' = Unauthorized401Storage(storage)
            /\ showLogin' = IF Unauthorized401Callbacks(onUnauthorizedCallback) > 0
                              THEN TRUE ELSE showLogin
            /\ call' = [call EXCEPT !.pc = "settled", !.timerArmed = FALSE,
                          !.response = r, !.settledBy = "response",
                          !.callbacks = Unauthorized401Callbacks(onUnauthorizedCallback),
                          !.invoked = IF Unauthorized401Callbacks(onUnauthorizedCallback) > 0
                                        THEN onUnauthorizedCallback ELSE Null,
                          !.seen = Unauthorized401Run(Unauthorized401Branch, onUnauthorizedCallback,
                                                      [storage |-> storage, seen |-> Null,
                                                       thrown |-> FALSE]).seen,
                          !.outcome = CatchOf(call.kind, UnauthorizedError(ExpiredMsg))]
       ELSE /\ call' = [call EXCEPT !.pc = "reading", !.timerArmed = FALSE, !.response = r]
            /\ UNCHANGED <<storage, showLogin>>
  /\ UNCHANGED <<onUnauthorizedCallback, lastError, auth, batch, img, endpoint, provider, wardrobe>>

\* a client that issues the request once more after a transport failure
FetchRejectRetry(message) ==
  /\ call.pc = "fetching"
  /\ call.transport = "live"
  /\ call' = IF call.fetches = 1
               THEN [call EXCEPT !.fetches = call.fetches + 1]
               ELSE [call EXCEPT !.pc = "settled", !.timerArmed = FALSE, !.settledBy = "reject",
                       !.fetchError = TypeErrorOf(message),
                       !.outcome = CatchOf(call.kind, TypeErrorOf(message))]
  /\ UNCHANGED <<storage, onUnauthorizedCallback, showLogin, lastError, auth, batch, img, endpoint, provider, wardrobe>>

\* a catch block that leaves the timer pending
FetchRejectTimerLeft(message) ==
  /\ call.pc = "fetching"
  /\ call.transport = "live"
  /\ call' = [call EXCEPT !.pc = "settled", !.settledBy = "reject",
                !.fetchError = TypeErrorOf(message),
                !.outcome = CatchOf(call.kind, TypeErrorOf(message))]
  /\ UNCHANGED <<storage, onUnauthorizedCallback, showLogin, lastError, auth, batch, img, endpoint, provider, wardrobe>>

\* fetch() rejects with the platform's TypeError
FetchReject(message) ==
  /\ call.pc = "fetching"
  /\ call.transport = "live"
  /\ call' = [call EXCEPT !.pc = "settled", !.timerArmed = FALSE, !.settledBy = "reject",
                !.fetchError = TypeErrorOf(message),
                !.outcome = CatchOf(call.kind, TypeErrorOf(message))]
  /\ UNCHANGED <<storage, onUnauthorizedCallback, showLogin, lastError, auth, batch, img, endpoint, provider, wardrobe>>

\* the timer set at the start fires: controller.abort(), fetch rejects with
\* an AbortError
TimerFire ==
  /\ call.timerArmed
  /\ call' = IF call.pc = "fetching"
               THEN [call EXCEPT !.pc = "settled", !.timerArmed = FALSE, !.aborted = TRUE,
                       !.settledBy = "timer", !.fetchError = AbortError,
                       !.outcome = CatchOf(call.kind, AbortError)]
               ELSE [call EXCEPT !.timerArmed = FALSE, !.aborted = TRUE]
  /\ UNCHANGED <<storage, onUnauthorizedCallback, showLogin, lastError, auth, batch, img, endpoint, provider, wardrobe>>

\* the body of a non-401 response is there: the rest of the function runs
BodyArrive ==
  /\ call.pc = "reading"
  /\ call' = [call EXCEPT !.pc = "settled", !.settledBy = "response",
                !.outcome = CASE call.kind = "json" -> BodyOutcome(call.response)
                              [] call.kind = "form" -> FormBodyOutcome(call.response)
                              [] OTHER -> LegacyBodyOutcome(call.response)]
  /\ UNCHANGED <<storage, onUnauthorizedCallback, showLogin, lastError, auth, batch, img, endpoint, provider, wardrobe>>

Next ==
  \/ SetUnauthorizedCallback(ShowLoginCallback)
  \/ CloseLogin
  \/ \E t \in Tokens : LoginSuccess(t)
  \/ Logout
  \/ \E kind \in {"json", "form"}, h \in CallerHeaders, tr \in {"live", "silent"} :
       StartRequest(kind, h, tr)
  \/ \E r \in Responses : FetchResolve(r)
  \/ \E m \in TransportErrorMessages : FetchReject(m)
  \/ TimerFire
  \/ BodyArrive

Spec == Init /\ [][Next]_vars

\* the timer callback runs once its delay has passed
LiveSpec == Spec /\ WF_vars(TimerFire)

\* ================================================================== claims
\* the call has settled after reading a response
SettledByResponse == call.pc = "settled" /\ call.settledBy = "response"
Rejected == call.outcome.state = "rejected"
Resolved == call.outcome.state = "resolved"

\* the call has settled on a 2xx response whose body is a JSON object
SettledOnEnvelope ==
  /\ SettledByResponse
  /\ ResponseOk(call.response)
  /\ call.response.body.json
  /\ call.response.body.value.ty = "object"
  /\ "code" \in DOMAIN call.response.body.value

TheEnvelope == call.response.body.value

\* the first non-empty of message, error, msg
FirstMessage(e) ==
  IF Truthy(e.message) THEN e.message ELSE IF Truthy(e.error) THEN e.error ELSE e.msg

CodeIsBad(e) == e.code # Undefined /\ e.code # Num(200)

\* C1: in the step in which a call receives a 401, whatever the body, the
\* token and the user info are cleared, the registered callback is invoked
\* exactly once (its effect: the login prompt is shown) and the call rejects
\* with an UnauthorizedError.
C1_Unauthorized401 ==
  [][ (call.pc = "fetching" /\ call'.pc = "settled" /\ call'.response.status = 401)
        => /\ storage'.token = Null
           /\ storage'.userInfo = Null
           /\ (onUnauthorizedCallback # Null => call'.callbacks = 1 /\ showLogin')
           /\ call'.outcome.state = "rejected"
           /\ call'.outcome.error.cls = "UnauthorizedError"
           /\ call'.outcome.error.name = "UnauthorizedError" ]_vars

\* a multipart call sent with a token got a 401 with a body that is no JSON
C1_Witness ==
  /\ SettledByResponse
  /\ call.kind = "form"
  /\ call.response.status = 401
  /\ ~call.response.body.json
  /\ "Authorization" \in DOMAIN call.headers
  /\ storage = EmptyStorage
  /\ call.callbacks = 1
  /\ Rejected /\ call.outcome.error.cls = "UnauthorizedError"

\* C2: a 2xx response whose envelope has a code other than 200 rejects with
\* a BusinessError carrying that code and, when the envelope has a message,
\* error or msg, the first non-empty of them as its message, whatever the
\* other fields are.
C2_BusinessErrorOnCode ==
  (SettledOnEnvelope /\ CodeIsBad(TheEnvelope))
    => /\ Rejected
       /\ call.outcome.error.cls = "BusinessError"
       /\ call.outcome.error.code = TheEnvelope.code
       /\ Truthy(FirstMessage(TheEnvelope))
            => call.outcome.error.message = FirstMessage(TheEnvelope).s

\* HTTP 200 with {"code":500,"message":"model unavailable","data":{...}}
C2_Witness ==
  /\ SettledOnEnvelope
  /\ call.response.status = 200
  /\ TheEnvelope.code = Num(500)
  /\ TheEnvelope.data = Payload
  /\ TheEnvelope.success = Undefined
  /\ Rejected
  /\ call.outcome.error.cls = "BusinessError"
  /\ call.outcome.error.code = Num(500)
  /\ call.outcome.error.message = <<"model", "unavailable">>

\* C3: whenever a call returns a result for an envelope, the result is the
\* envelope's data if data is defined (null included) and the whole envelope
\* if there is no data field.
C3_Unwrapping ==
  (SettledOnEnvelope /\ Resolved)
    => /\ TheEnvelope.data # Undefined => call.outcome.value = TheEnvelope.data
       /\ TheEnvelope.data = Undefined => call.outcome.value = TheEnvelope

\* an envelope with data: null came back as null
C3_Witness ==
  /\ SettledOnEnvelope
  /\ TheEnvelope.data = Null
  /\ Resolved
  /\ call.outcome.value = Null

\* C4: the envelope checks apply in the order code, success, data: a bad code
\* gives a BusinessError with that code whatever success and data are;
\* otherwise success === false gives a BusinessError without a code whatever
\* data is; otherwise data, or without data the envelope, is returned.
C4_CheckOrder ==
  SettledOnEnvelope
    => IF CodeIsBad(TheEnvelope)
         THEN /\ Rejected
              /\ call.outcome.error.cls = "BusinessError"
              /\ call.outcome.error.code = TheEnvelope.code
       ELSE IF TheEnvelope.success = Bool(FALSE)
         THEN /\ Rejected
              /\ call.outcome.error.cls = "BusinessError"
              /\ call.outcome.error.code = Undefined
       ELSE /\ Resolved
            /\ call.outcome.value =
                 IF TheEnvelope.data # Undefined THEN TheEnvelope.data ELSE TheEnvelope

\* code 0, success false and data all present: the code decides
C4_Witness ==
  /\ SettledOnEnvelope
  /\ TheEnvelope.code = Num(0)
  /\ TheEnvelope.success = Bool(FALSE)
  /\ TheEnvelope.data = Payload
  /\ Rejected
  /\ call.outcome.error.code = Num(0)

\* C5: a call whose transport never answers does not stay pending: its timer
\* fires, the transport is aborted and the call rejects with the Timeout
\* error.
C5_TimeoutRejects ==
  (call.pc = "fetching" /\ call.transport = "silent")
    ~> (/\ call.pc = "settled"
        /\ call.transport = "silent"
        /\ call.aborted
        /\ call.outcome = Throw(PlainError(TimeoutMsg)))

C5_Witness ==
  /\ call.pc = "settled"
  /\ call.transport = "silent"
  /\ call.settledBy = "timer"
  /\ call.aborted
  /\ call.outcome = Throw(PlainError(TimeoutMsg))

\* C6: a 2xx response whose body is no JSON fails with the error 'Invalid
\* response format from server: expected JSON', in apiRequest as in the
\* multipart variant; the parser's own error does not escape.
C6_InvalidFormatOnBadJson ==
  (SettledByResponse /\ ResponseOk(call.response) /\ ~call.response.body.json)
    => call.outcome = Throw(PlainError(InvalidFormatMsg))

\* the kind of failure, by what happened to the call
KindOf(f) ==
  CASE f.settledBy = "timer" -> "Timeout"
    [] f.settledBy = "reject" -> "BackendUnreachable"
    [] f.settledBy = "response" /\ f.status = 401 -> "Unauthorized"
    [] f.settledBy = "response" /\ f.status \notin 200..299 /\ f.status # 401 -> "RequestFailed"
    [] f.settledBy = "response" /\ f.status \in 200..299 /\ ~f.json -> "InvalidResponseFormat"
    [] f.settledBy = "response" /\ f.status \in 200..299 /\ f.json -> "BusinessError"
    [] OTHER -> "none"

\* C7: two failures of different kinds are never thrown as values of the
\* same class with the same name.
C7_KindsDistinguishable ==
  (call.pc = "settled" /\ Rejected /\ lastError # NoError
     /\ KindOf(ErrorSeen(call)) # KindOf(lastError))
    => <<call.outcome.error.cls, call.outcome.error.name>> # <<lastError.cls, lastError.name>>

\* C8: the message of the error apiRequest throws for a non-2xx response
\* other than 401 is the body's message, else error, else msg when the body
\* is JSON, the body text cut to 200 characters when it is not, and the
\* status text when there is no text.
C8_NonOkMessage ==
  (SettledByResponse /\ call.kind = "json" /\ ~ResponseOk(call.response)
     /\ call.response.status # 401)
    => /\ Rejected
       /\ call.outcome.error.cls = "Error"
       /\ LET body == call.response.body
              message == call.outcome.error.message
          IN /\ (body.json /\ body.value.ty = "object" /\ Truthy(FirstMessage(body.value)))
                  => message = FirstMessage(body.value).s
             /\ (~body.json /\ Len(body.chars) > 0)
                  => message = SubSeq(body.chars, 1, IF Len(body.chars) > 200 THEN 200
                                                     ELSE Len(body.chars))
             /\ (~body.json /\ Len(body.chars) = 0 /\ Len(call.response.statusText) > 0)
                  => message = call.response.statusText

IsBackendUnreachable(outcome) ==
  outcome.state = "rejected" /\ outcome.error.cls = "Error"
    /\ outcome.error.message = UnreachableMsg

\* C9: a fetch() that rejects with a TypeError mentioning 'fetch' is
\* reported as the BackendUnreachable error, and a timeout, a 401, a business
\* error or a parse error never is.
C9_BackendUnreachable ==
  call.pc = "settled"
    => /\ (call.settledBy = "reject" /\ call.fetchError.cls = "TypeError"
             /\ \E i \in DOMAIN call.fetchError.message : call.fetchError.message[i] = "fetch")
            => IsBackendUnreachable(call.outcome)
       /\ (call.settledBy = "timer"
             \/ (call.settledBy = "response"
                   /\ (call.response.status = 401 \/ ResponseOk(call.response))))
            => ~IsBackendUnreachable(call.outcome)

C9_Witness ==
  /\ call.pc = "settled"
  /\ call.settledBy = "reject"
  /\ call.fetchError = TypeErrorOf(<<"Failed", "to", "fetch">>)
  /\ call.outcome = Throw(PlainError(UnreachableMsg))

\* C10: the Authorization header a call sends is a function of the token
\* stored when the call starts: 'Bearer <token>' when there is one, no
\* header when the store holds none (after clearToken, nothing saved since).
C10_AuthorizationFromToken ==
  [][ (call.pc # "fetching" /\ call'.pc = "fetching")
        => IF storage.token = Null
             THEN "Authorization" \notin DOMAIN call'.headers
             ELSE /\ "Authorization" \in DOMAIN call'.headers
                  /\ call'.headers["Authorization"] = Str(<<"Bearer">> \o storage.token.s) ]_vars

\* the call before got a 401, which cleared the token; this one carries no
\* Authorization header
C10_Witness ==
  /\ call.pc = "fetching"
  /\ lastError.settledBy = "response"
  /\ lastError.status = 401
  /\ storage.token = Null
  /\ "Authorization" \notin DOMAIN call.headers

\* ------------------------------------------------ authRequest (authService)
\* the messages authRequest and the auth endpoint functions build; the source
\* literals are Chinese, the one for 401 contains the text "401"
AuthMsg(key) ==
  CASE key = "401" -> <<"no", "login", "needed", "but", "the", "backend", "returned", "401">>
    [] key = "code" -> <<"request", "failed:">>
    [] key = "empty" -> <<"request", "failed,", "returned", "data", "is", "empty">>
    [] key = "timeout" -> <<"request", "timed", "out,", "check", "the", "network">>
    [] key = "unreachable" -> <<"cannot", "connect", "to", "the", "backend", "service">>
    [] key = "send-code" -> <<"sending", "the", "code", "failed:", "check", "the", "backend", "configuration">>
    [] key = "sent" -> <<"verification", "code", "sent">>
    [] OTHER -> <<"registration", "failed:", "the", "server", "returned", "invalid", "data">>

\* key.toLowerCase() for the header names that occur
LowerCase(key) ==
  CASE key \in {"Authorization", "AUTHORIZATION", "authorization", "aUtHoRiZaTiOn"}
         -> "authorization"
    [] key = "X-Client" -> "x-client"
    [] OTHER -> key

\* a filter that compares the header name as the caller wrote it
AuthBuildHeadersExact(optHeaders) ==
  [k \in {k \in DOMAIN optHeaders : k # "authorization"} |-> optHeaders[k]]
    @@ ("Content-Type" :> Str(<<"application/json">>))

\* headers = { 'Content-Type': 'application/json' }, then every caller header
\* whose lower-cased name is not 'authorization'
AuthBuildHeaders(optHeaders) ==
  [k \in {k \in DOMAIN optHeaders : LowerCase(k) # "authorization"} |-> optHeaders[k]]
    @@ ("Content-Type" :> Str(<<"application/json">>))

\* a 401 treated the way apiRequest treats it
AuthNonOkAsApiRequest(r) ==
  IF r.status = 401
    THEN Throw(UnauthorizedError(ExpiredMsg))
    ELSE Throw(PlainError(ApiFailedMsg(r.status)))

\* if (!response.ok): the body is parsed for a message, a 401 gets a message
\* of its own, and a plain Error is thrown
AuthNonOk(r) ==
  LET parsed == ResponseJson(r)
      error == IF parsed.ok THEN parsed.value
               ELSE [ty |-> "object", message |-> Str(r.statusText)]
  IN IF error.ty = "null"
       THEN Throw(TypeErrorOf(<<"Cannot", "read", "properties", "of", "null">>))
     ELSE IF r.status = 401
       THEN Throw(PlainError(JsOr(Get(error, "message"), Str(AuthMsg("401"))).s))
     ELSE Throw(PlainError(JsOr(Get(error, "message"), Str(ApiFailedMsg(r.status))).s))

\* the catch block of authRequest
AuthOuterCatch(error) ==
  IF InstanceofError(error) /\ error.name = "AbortError"
    THEN Throw(PlainError(AuthMsg("timeout")))
  ELSE IF InstanceofTypeError(error) /\ Includes(error.message, "fetch")
    THEN Throw(PlainError(AuthMsg("unreachable")))
  ELSE Throw(error)

\* an authRequest that unwraps a 2xx body the way apiRequest does
AuthBodyOutcomeAsApiRequest(r) ==
  IF ResponseOk(r) THEN OkOutcome(r) ELSE AuthOuterCatch(AuthNonOk(r).error)

\* authRequest from the response on
AuthBodyOutcome(r) ==
  LET parsed == ResponseJson(r)
      result == parsed.value
      inner ==
        IF ~ResponseOk(r) THEN AuthNonOk(r)
        ELSE IF ~parsed.ok THEN Throw(parsed.error)
        ELSE IF result.ty = "null"
          THEN Throw(TypeErrorOf(<<"Cannot", "read", "properties", "of", "null">>))
        ELSE IF Get(result, "code") # Undefined /\ Get(result, "code") # Num(200)
                /\ Get(result, "code") # Num(0)
          THEN Throw(PlainError(JsOr(Get(result, "message"),
                                     Str(AuthMsg("code") \o <<NumText(Get(result, "code"))>>)).s))
        ELSE IF Get(result, "data") # Undefined /\ Get(result, "data") # Null
          THEN Return(Get(result, "data"))
        ELSE IF Get(result, "data") = Null
          THEN Throw(PlainError(JsOr(Get(result, "message"), Str(AuthMsg("empty"))).s))
        ELSE Return(result)
  IN IF inner.state = "rejected" THEN AuthOuterCatch(inner.error) ELSE inner

\* endpoint functions that save whatever the response carries before they
\* look at the token
AuthEndpointSaveFirst(ep, outcome, st) ==
  IF outcome.state = "rejected"
    THEN [result |-> outcome, storage |-> st]
    ELSE [result |-> IF ep = "register/email" /\ ~Truthy(Get(outcome.value, "token"))
                       THEN Throw(PlainError(AuthMsg("register")))
                       ELSE outcome,
          storage |-> IF ep = "send-code"
                        THEN st
                        ELSE SaveToken(st, Get(outcome.value, "token"))]

\* the endpoint functions around authRequest: what the caller gets and what
\* is left in the store
AuthEndpoints == {"send-code", "login/sms", "login/password", "register/email"}
AuthEndpoint(ep, outcome, st) ==
  LET response == outcome.value
      token == Get(response, "token")
      saved == SaveUserInfo(SaveToken(st, token),
                            [ty |-> "object", userId |-> Get(response, "userId")])
  IN IF outcome.state = "rejected"
       THEN [result |-> IF ep = "send-code" /\ InstanceofError(outcome.error)
                            /\ Includes(outcome.error.message, "401")
                          THEN Throw(PlainError(AuthMsg("send-code")))
                          ELSE outcome,
             storage |-> st]
     ELSE IF ep = "send-code"
       THEN [result |-> Return(JsOr(response, Str(AuthMsg("sent")))), storage |-> st]
     ELSE IF ep = "register/email" /\ (~Truthy(response) \/ ~Truthy(token))
       THEN [result |-> Throw(PlainError(AuthMsg("register"))), storage |-> st]
     ELSE [result |-> outcome, storage |-> IF Truthy(token) THEN saved ELSE st]

\* the synchronous start of authRequest: arm the timer, build the headers,
\* call fetch
AuthStart(ep, optHeaders) ==
  /\ auth.pc \in {"idle", "settled"}
  /\ auth' = [pc |-> "fetching", endpoint |-> ep, options |-> optHeaders,
              headers |-> AuthBuildHeaders(optHeaders),
              timerArmed |-> TRUE, response |-> NoResponse, settledBy |-> "none",
              outcome |-> Pending, result |-> Pending]
  /\ UNCHANGED <<storage, onUnauthorizedCallback, showLogin, call, lastError, batch, img, endpoint, provider, wardrobe>>

\* fetch() resolves: clearTimeout; every response, a 401 too, goes on to its body
AuthFetchResolve(r) ==
  /\ auth.pc = "fetching"
  /\ auth' = [auth EXCEPT !.pc = "reading", !.timerArmed = FALSE, !.response = r]
  /\ UNCHANGED <<storage, onUnauthorizedCallback, showLogin, call, lastError, batch, img, endpoint, provider, wardrobe>>

\* handleLoginBySms, handleRegisterByEmail, handleLoginByPassword of a mounted
\* AuthProvider after their await: setToken(response.token),
\* setIsAuthenticated(true); a rejection is thrown on
ProviderAfterLogin(p, ep, result) ==
  IF p.mounted /\ ep # "send-code" /\ result.state = "resolved"
    THEN [p EXCEPT !.isAuthenticated = TRUE, !.token = Get(result.value, "token")]
    ELSE p

\* authRequest settles, the awaiting endpoint function runs on, and so does
\* the handler of AuthProvider that called it
AuthSettle(by, outcome) ==
  /\ auth' = [auth EXCEPT !.pc = "settled", !.timerArmed = FALSE, !.settledBy = by,
                !.outcome = outcome,
                !.result = AuthEndpoint(auth.endpoint, outcome, storage).result]
  /\ storage' = AuthEndpoint(auth.endpoint, outcome, storage).storage
  /\ provider' = ProviderAfterLogin(provider, auth.endpoint,
                                    AuthEndpoint(auth.endpoint, outcome, storage).result)
  /\ UNCHANGED <<onUnauthorizedCallback, showLogin, call, lastError, batch, img, endpoint,
                 wardrobe>>

AuthBodyArrive ==
  /\ auth.pc = "reading"
  /\ AuthSettle("response", AuthBodyOutcome(auth.response))

AuthFetchReject(message) ==
  /\ auth.pc = "fetching"
  /\ AuthSettle("reject", AuthOuterCatch(TypeErrorOf(message)))

AuthTimerFire ==
  /\ auth.pc = "fetching"
  /\ auth.timerArmed
  /\ AuthSettle("timer", AuthOuterCatch(AbortError))

\* what the auth endpoints answer: a session, a refusal, or an HTTP failure
AuthResponses ==
  {Response(200, <<"OK">>,
            JsonBody(Envelope(Num(200), Undefined, Undefined, Undefined, Undefined,
                              [ty |-> "object", token |-> t, userId |-> t.s]))) : t \in Tokens}
    \cup {Response(200, <<"OK">>, b) :
            b \in {JsonBody(Envelope(Num(0), Undefined, Undefined, Undefined, Undefined, Payload)),
                   JsonBody(Envelope(Num(200), Str(<<"bad", "code">>), Undefined, Undefined,
                                     Undefined, Null)),
                   JsonBody(Envelope(Num(500), Undefined, Undefined, Undefined, Undefined,
                                     Undefined)),
                   JsonBody(EmptyObject),
                   TextBody(ShortText)}}
    \cup {Response(401, <<"Unauthorized">>, b) :
            b \in {JsonBody(EmptyObject), TextBody(ShortText),
                   JsonBody(Envelope(Undefined, Str(<<"token", "required">>), Undefined,
                                     Undefined, Undefined, Undefined))}}
    \cup {Response(500, <<>>, JsonBody(EmptyObject))}

\* the answers to apiRequest that matter to the session
SessionResponses ==
  {Response(200, <<"OK">>, JsonBody(WrappedPayload)),
   Response(200, <<"OK">>, JsonBody(Envelope(Num(200), Str(<<"bad", "code">>), Undefined,
                                             Undefined, Undefined, Null))),
   Response(401, <<"Unauthorized">>, JsonBody(EmptyObject)),
   Response(500, <<>>, TextBody(ShortText))}

\* the session: the request client and the auth service on one store
SessionNext ==
  \/ SetUnauthorizedCallback(ShowLoginCallback)
  \/ CloseLogin
  \/ Logout
  \/ \E kind \in {"json", "form"} : StartRequest(kind, NoHeaders, "live")
  \/ \E r \in SessionResponses : FetchResolve(r)
  \/ FetchReject(<<"Failed", "to", "fetch">>)
  \/ TimerFire
  \/ BodyArrive
  \/ \E ep \in AuthEndpoints : AuthStart(ep, NoHeaders)
  \/ \E r \in AuthResponses : AuthFetchResolve(r)
  \/ AuthBodyArrive
  \/ AuthFetchReject(<<"Failed", "to", "fetch">>)
  \/ AuthTimerFire

SessionSpec == Init /\ [][SessionNext]_vars

C12_ExactlyOneFetch ==
  call.pc \in {"fetching", "reading", "settled"} => call.fetches = 1

\* a call that failed in the transport, where a retry would have happened
C12_Witness ==
  /\ call.pc = "settled"
  /\ call.settledBy = "reject"
  /\ call.outcome.state = "rejected"
  /\ call.fetches = 1

\* C13: apiRequestFormData has the contract of apiRequest: a settled call has
\* the value or the error (class, name, message and fields) the other of the
\* two functions gives for the same response, transport failure or timeout
C13_SameContract ==
  call.pc = "settled" =>
    call.outcome =
      (CASE call.settledBy = "response" /\ call.response.status # 401 ->
              IF call.kind = "json" THEN FormBodyOutcome(call.response)
                                    ELSE BodyOutcome(call.response)
         [] call.settledBy = "response" /\ call.response.status = 401 ->
              CatchOf(IF call.kind = "json" THEN "form" ELSE "json",
                      UnauthorizedError(ExpiredMsg))
         [] OTHER ->
              CatchOf(IF call.kind = "json" THEN "form" ELSE "json", call.fetchError))

\* the step in which apiRequest or apiRequestFormData receives a 401
Receives401 ==
  call.pc = "fetching" /\ call'.pc = "settled" /\ call'.settledBy = "response"
    /\ call'.response.status = 401

\* the step in which a login or registration succeeds with a token
LoginSucceeds ==
  /\ auth.pc = "reading"
  /\ auth'.pc = "settled"
  /\ auth'.endpoint \in {"login/sms", "login/password", "register/email"}
  /\ auth'.result.state = "resolved"
  /\ Truthy(Get(auth'.result.value, "token"))

IssueNoAwait(b) ==
  [b EXCEPT !.inFlight = b.inFlight \cup {b.i}, !.issued = Append(b.issued, b.i),
            !.i = b.i + 1, !.pc = IF b.i + 1 > b.total THEN "idle" ELSE "loop"]

\* const result = await analyzeClothingImage(file, ...): the request of file
\* i is issued and the handler is suspended on it
Issue(b) ==
  [b EXCEPT !.inFlight = b.inFlight \cup {b.i}, !.issued = Append(b.issued, b.i),
            !.pc = "awaiting"]

\* the handler is started by its button, which is disabled while the handler
\* runs
BatchBegin(handler, n) ==
  /\ batch.pc = "idle"
  /\ batch' = [pc |-> "loop", handler |-> handler, total |-> n, i |-> 1, inFlight |-> {},
               issued |-> <<>>, outcomes |-> <<>>, isAnalyzing |-> handler = "handleAnalyze",
               analysisError |-> Null, currentStep |-> 2, errorsShown |-> {}]
  /\ UNCHANGED <<storage, onUnauthorizedCallback, showLogin, call, lastError, auth, img, endpoint, provider, wardrobe>>

\* handleBatchUpload reads the file first; a file that cannot be read is
\* reported and the loop goes on
BatchReadFails ==
  /\ batch.pc = "loop"
  /\ batch.handler = "handleBatchUpload"
  /\ batch' = [batch EXCEPT !.i = batch.i + 1,
                 !.pc = IF batch.i + 1 > batch.total THEN "idle" ELSE "loop"]
  /\ UNCHANGED <<storage, onUnauthorizedCallback, showLogin, call, lastError, auth, img, endpoint, provider, wardrobe>>

BatchIssue ==
  /\ batch.pc = "loop"
  /\ batch' = Issue(batch)
  /\ UNCHANGED <<storage, onUnauthorizedCallback, showLogin, call, lastError, auth, img, endpoint, provider, wardrobe>>

\* a catch block that treats a BusinessError like any other error
StopsBatchNever(handler, outcome) == FALSE

\* if (error instanceof BusinessError && error.message) { ...; return; } in
\* handleAnalyze; the message of a BusinessError of the client is never empty
StopsBatch(handler, outcome) == handler = "handleAnalyze" /\ outcome = "BusinessError"

\* the awaited request settles: its result is kept or its error is caught; a
\* BusinessError ends handleAnalyze with its message in analysisError, every
\* other error is shown and the loop goes on with the next file; after the
\* last file handleAnalyze moves to step 3 if it has a result; its finally
\* block resets isAnalyzing
BatchSettle(outcome) ==
  /\ batch.pc = "awaiting"
  /\ LET stop == StopsBatch(batch.handler, outcome)
         last == batch.i + 1 > batch.total
         results == {j \in 1..Len(batch.outcomes) : batch.outcomes[j] = "resolved"}
                      \cup (IF outcome = "resolved" THEN {batch.i} ELSE {})
     IN batch' = [batch EXCEPT !.inFlight = batch.inFlight \ {batch.i},
                    !.outcomes = Append(batch.outcomes, outcome),
                    !.i = batch.i + 1,
                    !.pc = IF last \/ stop THEN "idle" ELSE "loop",
                    !.analysisError = IF stop THEN Str(<<"model", "unavailable">>) ELSE @,
                    !.errorsShown = IF outcome # "resolved" /\ ~stop
                                      THEN @ \cup {batch.i} ELSE @,
                    !.currentStep = IF batch.handler = "handleAnalyze" /\ last /\ ~stop
                                         /\ results # {}
                                      THEN 3 ELSE @,
                    !.isAnalyzing = IF last \/ stop THEN FALSE ELSE @]
  /\ UNCHANGED <<storage, onUnauthorizedCallback, showLogin, call, lastError, auth, img, endpoint, provider, wardrobe>>

BatchNext ==
  \/ \E h \in {"handleAnalyze", "handleBatchUpload"}, n \in 1..MaxFiles : BatchBegin(h, n)
  \/ BatchReadFails
  \/ BatchIssue
  \/ \E o \in {"resolved", "BusinessError", "Error"} : BatchSettle(o)

BatchSpec == Init /\ [][BatchNext]_vars

\* C15: a batch is processed one file at a time in submission order: at most
\* one analyze request is in flight, requests are issued in the order of the
\* files, and a request is issued only when every request issued before it
\* has settled
C15_OneAtATime ==
  /\ Cardinality(batch.inFlight) <= 1
  /\ \A j, k \in 1..Len(batch.issued) : j < k => batch.issued[j] < batch.issued[k]
  /\ \A j \in 1..Len(batch.issued) :
       j < Len(batch.issued) => (j <= Len(batch.outcomes) /\ batch.issued[j] \notin batch.inFlight)
  /\ Len(batch.issued) - Len(batch.outcomes) = Cardinality(batch.inFlight)

\* the last file of a full batch is in flight after the others have settled,
\* one of them with an error
C15_Witness ==
  /\ batch.total = MaxFiles
  /\ batch.inFlight = {MaxFiles}
  /\ Len(batch.outcomes) = Len(batch.issued) - 1
  /\ \E j \in 1..Len(batch.outcomes) : batch.outcomes[j] = "Error"

\* ------------------------------------------ image normalization (utils)
\* Sizes are exact: Math.round(p / q) for positive p, q, with the quotient
\* taken exactly where the code takes it in double precision.
Round(p, q) == (2 * p + q) \div (2 * q)

\* calculateTargetSize: scale up by the larger factor when a side is under
\* its minimum, then down by the smaller factor when a side is over its
\* maximum; both sides are rounded
calculateTargetSize(width, height, maxWidth, maxHeight, minWidth, minHeight) ==
  LET upX == minWidth * height >= minHeight * width   \* scaleX >= scaleY
      up == IF width < minWidth \/ height < minHeight
              THEN [width |-> IF upX THEN Round(width * minWidth, width)
                                     ELSE Round(width * minHeight, height),
                    height |-> IF upX THEN Round(height * minWidth, width)
                                      ELSE Round(height * minHeight, height)]
              ELSE [width |-> width, height |-> height]
      downX == maxWidth * up.height <= maxHeight * up.width   \* scaleX <= scaleY
  IN IF up.width > maxWidth \/ up.height > maxHeight
       THEN [width |-> IF downX THEN Round(up.width * maxWidth, up.width)
                              ELSE Round(up.width * maxHeight, up.height),
             height |-> IF downX THEN Round(up.height * maxWidth, up.width)
                               ELSE Round(up.height * maxHeight, up.height)]
       ELSE up

\* compressImage(file, 3, ...): the byte budget, in megabytes
maxSizeMB == 3
\* const maxAttempts = 3
maxAttempts == 3

\* estimateInitialQuality, in tenths: 0.6 for a ratio over 5, 0.7 over 2,
\* 0.8 over 1.5, else 0.9
estimateInitialQuality(originalSize, targetSize) ==
  IF originalSize > 5 * targetSize THEN 6
  ELSE IF originalSize > 2 * targetSize THEN 7
  ELSE IF 2 * originalSize > 3 * targetSize THEN 8
  ELSE 9

\* a callback that gives up when the last attempt is still over the budget
toBlobCallbackStrict(i, size) ==
  IF size = 0 THEN [i EXCEPT !.pc = "rejected", !.sizes = Append(i.sizes, size)]
  ELSE IF size <= maxSizeMB
    THEN [i EXCEPT !.pc = "resolved", !.sizes = Append(i.sizes, size), !.result = size]
  ELSE IF i.attempts >= maxAttempts
    THEN [i EXCEPT !.pc = "rejected", !.sizes = Append(i.sizes, size)]
  ELSE [i EXCEPT !.sizes = Append(i.sizes, size), !.attempts = i.attempts + 1,
                 !.quality = IF i.quality - 1 > 1 THEN i.quality - 1 ELSE 1]

\* the callback compressToSize gives to canvas.toBlob; size 0 stands for a
\* null blob, quality is in tenths
toBlobCallback(i, size) ==
  IF size = 0 THEN [i EXCEPT !.pc = "rejected", !.sizes = Append(i.sizes, size)]
  ELSE IF size <= maxSizeMB \/ i.attempts >= maxAttempts
    THEN [i EXCEPT !.pc = "resolved", !.sizes = Append(i.sizes, size), !.result = size]
  ELSE [i EXCEPT !.sizes = Append(i.sizes, size), !.attempts = i.attempts + 1,
                 !.quality = IF i.quality - 1 > 1 THEN i.quality - 1 ELSE 1]

\* compressImage up to the first canvas.toBlob: the image is loaded, the
\* target size computed, the canvas drawn and the first quality estimated;
\* every call has variables of its own, a run follows one call
CompressImage(width, height, min, max, fileMB) ==
  /\ img.pc = "none"
  /\ img' = [pc |-> "encoding", width |-> width, height |-> height, min |-> min, max |-> max,
             target |-> calculateTargetSize(width, height, max, max, min, min),
             quality |-> estimateInitialQuality(fileMB, maxSizeMB), attempts |-> 0,
             sizes |-> <<>>, result |-> 0]
  /\ UNCHANGED <<storage, onUnauthorizedCallback, showLogin, call, lastError, auth, batch, endpoint, provider, wardrobe>>

\* the encoder calls back with a blob of some size, or with null
ToBlob(size) ==
  /\ img.pc = "encoding"
  /\ img' = toBlobCallback(img, size)
  /\ UNCHANGED <<storage, onUnauthorizedCallback, showLogin, call, lastError, auth, batch, endpoint, provider, wardrobe>>

ImgNext ==
  \/ \E w, h \in 1..MaxDim, min \in 1..MinSide, max \in MinSide..MaxSide, f \in 1..MaxFileMB :
       CompressImage(w, h, min, max, f)
  \/ \E size \in 0..(maxSizeMB + BlobOverrun) : ToBlob(size)

ImgSpec == Init /\ [][ImgNext]_vars

\* C16: the target size lies within the limits: minW <= w <= maxW and
\* minH <= h <= maxH for every source size and every pair of limits with
\* min <= max
C16_TargetWithinBounds ==
  img.pc # "none" =>
    /\ img.min <= img.target.width /\ img.target.width <= img.max
    /\ img.min <= img.target.height /\ img.target.height <= img.max

\* C17: compressToSize converges: it encodes a bounded number of times, goes
\* on only while the encoding is over the budget, resolves with the last
\* encoding, which is within the budget unless every attempt was over it, and
\* rejects only when the encoder gives no blob, never for a size
C17_Convergence ==
  /\ Len(img.sizes) <= maxAttempts + 1
  /\ img.pc = "encoding" => \A j \in 1..Len(img.sizes) : img.sizes[j] > maxSizeMB
  /\ img.pc = "resolved" =>
       /\ img.result = img.sizes[Len(img.sizes)]
       /\ \/ img.result <= maxSizeMB
          \/ \A j \in 1..Len(img.sizes) : img.sizes[j] > maxSizeMB
  /\ img.pc = "rejected" => img.sizes[Len(img.sizes)] = 0

\* every attempt was over the budget and the last encoding was returned
C17_Witness ==
  /\ img.pc = "resolved"
  /\ img.result > maxSizeMB
  /\ Len(img.sizes) > 1
  /\ img.sizes[1] # img.result

\* C18: compressToSize encodes at most 3 times: it stops at the first
\* encoding within the budget, lowers the quality by 0.1 per attempt and not
\* under 0.1, and returns after the third encoding that is over the budget
C18_AtMostThreeEncodes ==
  /\ Len(img.sizes) <= maxAttempts
  /\ \A j \in 1..Len(img.sizes) :
       (img.sizes[j] # 0 /\ img.sizes[j] <= maxSizeMB) => j = Len(img.sizes)
  /\ img.pc # "none" => img.quality >= 1

\* C19: the timeout covers the whole request: while the body of a response
\* whose headers have arrived is still being read, the timer is armed, so a
\* body that never finishes is aborted and the call rejects with Timeout
C19_TimerCoversBody ==
  call.pc = "reading" => call.timerArmed

\* ---------------------------------------- endpoint functions that downgrade
\* a list function that lets UnauthorizedError through
getWardrobeListRethrowing(outcome) ==
  IF outcome.state = "rejected"
    THEN IF outcome.error.cls = "UnauthorizedError" THEN outcome
         ELSE Return([ty |-> "array", items |-> <<>>])
  ELSE IF outcome.value.ty = "array" THEN outcome
  ELSE Return([ty |-> "array", items |-> <<>>])

\* getWardrobeList, from the settled apiRequest on: the array, or [] for
\* anything else and for every error
getWardrobeList(outcome) ==
  IF outcome.state = "rejected" THEN Return([ty |-> "array", items |-> <<>>])
  ELSE IF outcome.value.ty = "array" THEN outcome
  ELSE Return([ty |-> "array", items |-> <<>>])

\* the earlier analyzeClothingImage, from the settled apiRequest on: the
\* response, or { category: ClothingCategory.TOP } for every error
analyzeClothingImage(outcome) ==
  IF outcome.state = "rejected"
    THEN Return([ty |-> "object", category |-> Str(<<"Top">>)])
    ELSE outcome

\* the awaiting endpoint function runs on once its call has settled; a call
\* of the later client is getWardrobeList's, one of the earlier client is
\* analyzeClothingImage's
EndpointReturn ==
  /\ call.pc = "settled"
  /\ endpoint = NoEndpoint
  /\ endpoint' = IF call.kind = "json"
                   THEN [fn |-> "getWardrobeList", result |-> getWardrobeList(call.outcome)]
                   ELSE [fn |-> "analyzeClothingImage",
                         result |-> analyzeClothingImage(call.outcome)]
  /\ UNCHANGED <<storage, onUnauthorizedCallback, showLogin, call, lastError, auth, batch, img, provider, wardrobe>>

\* answers to the two endpoints: lists bare and wrapped, other payloads, a
\* business failure, bodies that are not JSON, 401 and 500
EndpointResponses ==
  {Response(200, <<"OK">>, b) :
     b \in {JsonBody(ArrayValue),
            JsonBody(Envelope(Num(200), Undefined, Undefined, Undefined, Undefined, ArrayValue)),
            JsonBody(WrappedPayload),
            JsonBody([ty |-> "object", category |-> Str(<<"Bottom">>)]),
            JsonBody(Envelope(Num(500), Str(<<"model", "unavailable">>), Undefined, Undefined,
                              Undefined, Undefined)),
            JsonBody(Null),
            TextBody(ShortText)}}
    \cup {Response(401, <<"Unauthorized">>, JsonBody(EmptyObject))}
    \cup {Response(500, <<>>, b) : b \in {JsonBody(EmptyObject), JsonBody(Null), TextBody(ShortText)}}

EndpointNext ==
  \/ SetUnauthorizedCallback(ShowLoginCallback)
  \/ \E kind \in {"json", "legacy"}, tr \in {"live", "silent"} : StartRequest(kind, NoHeaders, tr)
  \/ \E r \in EndpointResponses : FetchResolve(r)
  \/ \E m \in TransportErrorMessages : FetchReject(m)
  \/ TimerFire
  \/ BodyArrive
  \/ EndpointReturn

EndpointSpec == Init /\ [][EndpointNext]_vars

\* C20: the endpoint functions that downgrade never reject: getWardrobeList
\* resolves with the array it got and with the empty list for every failure
\* and every payload that is not an array, the earlier analyzeClothingImage
\* with category Top for every failure; the side effects of a 401 have taken
\* place all the same
C20_DowngradeNeverRejects ==
  endpoint.fn # "none" =>
    /\ endpoint.result.state = "resolved"
    /\ (endpoint.fn = "getWardrobeList"
          /\ (call.outcome.state = "rejected" \/ call.outcome.value.ty # "array"))
       => endpoint.result.value = [ty |-> "array", items |-> <<>>]
    /\ (endpoint.fn = "getWardrobeList" /\ call.outcome.state = "resolved"
          /\ call.outcome.value.ty = "array")
       => endpoint.result.value = call.outcome.value
    /\ (endpoint.fn = "analyzeClothingImage" /\ call.outcome.state = "rejected")
       => endpoint.result.value = [ty |-> "object", category |-> Str(<<"Top">>)]
    /\ (call.settledBy = "response" /\ call.response.status = 401)
       => /\ call.outcome = Throw(UnauthorizedError(ExpiredMsg))
          /\ storage = EmptyStorage
          /\ call.callbacks > 0 => showLogin

\* getWardrobeList has turned a 401 into the empty list; the session is gone
\* and the login prompt is up
C20_Witness ==
  /\ endpoint.fn = "getWardrobeList"
  /\ call.settledBy = "response"
  /\ call.response.status = 401
  /\ "Authorization" \in DOMAIN call.headers
  /\ endpoint.result = Return([ty |-> "array", items |-> <<>>])
  /\ storage.token = Null
  /\ showLogin

\* ------------------------------------------------ authRequest on its own
\* header sets a caller of authRequest may pass: none, a harmless one, and
\* Authorization entries in several letter cases
AuthCallerHeaders ==
  {NoHeaders, ("X-Client" :> Str(<<"web">>))}
    \cup {(k :> Bearer(t)) : k \in {"Authorization", "authorization", "AUTHORIZATION",
                                    "aUtHoRiZaTiOn"}, t \in Tokens}
    \cup {("X-Client" :> Str(<<"web">>)) @@ ("Authorization" :> Bearer(t)) : t \in Tokens}

AuthNext ==
  \/ \E ep \in AuthEndpoints, h \in AuthCallerHeaders : AuthStart(ep, h)
  \/ \E r \in AuthResponses : AuthFetchResolve(r)
  \/ AuthBodyArrive
  \/ \E m \in TransportErrorMessages : AuthFetchReject(m)
  \/ AuthTimerFire

AuthSpec == Init /\ [][AuthNext]_vars

\* C21: a request issued through authRequest never carries an Authorization
\* header, whatever token is stored and whatever headers the caller passed,
\* an Authorization entry in any letter case included
C21_NoAuthorization ==
  auth.pc # "idle" =>
    \A k \in DOMAIN auth.headers :
      k \notin {"Authorization", "authorization", "AUTHORIZATION", "aUtHoRiZaTiOn"}

\* a request went out while a token was stored and the caller had passed
\* an Authorization entry next to a harmless one: the harmless one is there
C21_Witness ==
  /\ auth.pc = "fetching"
  /\ storage.token # Null
  /\ "Authorization" \in DOMAIN auth.options
  /\ "X-Client" \in DOMAIN auth.headers
  /\ "Content-Type" \in DOMAIN auth.headers

\* ------------------------------------------------------ the callback slot
\* the closure a later run of App's effect registers; it sets showLogin too
RemountCallback == [ty |-> "function", id |-> "showLogin, second mount"]

\* the request client with the effect of App running once and once more
CallbackNext ==
  \/ (onUnauthorizedCallback = Null /\ SetUnauthorizedCallback(ShowLoginCallback))
  \/ (onUnauthorizedCallback = ShowLoginCallback /\ SetUnauthorizedCallback(RemountCallback))
  \/ CloseLogin
  \/ \E kind \in {"json", "form"} : StartRequest(kind, NoHeaders, "live")
  \/ \E r \in SessionResponses : FetchResolve(r)
  \/ FetchReject(<<"Failed", "to", "fetch">>)
  \/ TimerFire
  \/ BodyArrive

CallbackSpec == Init /\ [][CallbackNext]_vars

\* C22: the registry is one slot: the 401 step invokes the callback the slot
\* holds, which is the one registered last, and nothing else; with an empty
\* slot it invokes nothing, leaves the login prompt alone, and still clears
\* token and user info and rejects with UnauthorizedError
C22_SingleSlot ==
  [][ Receives401 =>
        /\ call'.invoked = onUnauthorizedCallback
        /\ call'.callbacks = (IF onUnauthorizedCallback = Null THEN 0 ELSE 1)
        /\ onUnauthorizedCallback = Null => showLogin' = showLogin
        /\ onUnauthorizedCallback # Null => showLogin'
        /\ storage' = EmptyStorage
        /\ call'.outcome = Throw(UnauthorizedError(ExpiredMsg)) ]_vars

\* the callback of the second registration was the one a 401 invoked
C22_Witness ==
  /\ call.pc = "settled"
  /\ call.response.status = 401
  /\ call.invoked = RemountCallback
  /\ onUnauthorizedCallback = RemountCallback
  /\ showLogin

\* C23: in handleAnalyze a BusinessError on file i ends the batch at once: no
\* later file is requested, analysisError is the backend's message and the
\* step stays where it was; any other error on file i is shown and the
\* remaining files are still analyzed; however the handler ends, isAnalyzing
\* is false
C23_BusinessErrorStopsBatch ==
  [][ /\ (batch.handler = "handleAnalyze" /\ batch.pc = "awaiting" /\ batch' # batch) =>
           LET o == batch'.outcomes[Len(batch'.outcomes)]
           IN /\ o = "BusinessError" =>
                   /\ batch'.pc = "idle"
                   /\ batch'.analysisError = Str(<<"model", "unavailable">>)
                   /\ batch'.currentStep = batch.currentStep
                   /\ batch'.issued = batch.issued
              /\ o = "Error" =>
                   /\ batch.i \in batch'.errorsShown
                   /\ batch'.analysisError = batch.analysisError
                   /\ batch.i < batch.total => (batch'.pc = "loop" /\ batch'.i = batch.i + 1)
              /\ batch'.pc = "idle" => ~batch'.isAnalyzing
      /\ batch'.handler = "handleAnalyze" =>
           \A j \in 1..Len(batch'.outcomes) :
             batch'.outcomes[j] = "BusinessError" =>
               (j = Len(batch'.outcomes) /\ Len(batch'.issued) = j /\ batch'.pc = "idle") ]_vars

\* a batch of handleAnalyze went on after an error on its first file and was
\* ended by a BusinessError on the second, with a file left
C23_Witness ==
  /\ batch.handler = "handleAnalyze"
  /\ batch.total = MaxFiles
  /\ batch.outcomes = <<"Error", "BusinessError">>
  /\ batch.errorsShown = {1}
  /\ batch.analysisError # Null
  /\ ~batch.isAnalyzing

\* C24: authRequest takes data: null for a failure. For a 2xx envelope it
\* rejects on a code other than 200 and 0, else returns data when data is
\* neither undefined nor null, rejects when data is null, and returns the
\* whole envelope when there is no data; apiRequest returns the null of
\* {code: 200, data: null}
C24_NullDataFails ==
  /\ (auth.pc = "settled" /\ auth.settledBy = "response" /\ ResponseOk(auth.response)
        /\ auth.response.body.json /\ auth.response.body.value.ty = "object")
     => LET e == auth.response.body.value
            code == Get(e, "code")
            data == Get(e, "data")
        IN IF code \notin {Undefined, Num(200), Num(0)}
             THEN auth.outcome.state = "rejected"
           ELSE IF data \notin {Undefined, Null} THEN auth.outcome = Return(data)
           ELSE IF data = Null
             THEN auth.outcome.state = "rejected" /\ auth.outcome.error.cls = "Error"
           ELSE auth.outcome = Return(e)
  /\ (call.pc = "settled" /\ call.settledBy = "response" /\ call.kind = "json"
        /\ ResponseOk(call.response) /\ call.response.body.json
        /\ call.response.body.value.ty = "object"
        /\ Get(call.response.body.value, "code") = Num(200)
        /\ Get(call.response.body.value, "data") = Null)
     => call.outcome = Return(Null)

\* the same {code: 200, data: null} answered to both: authRequest has
\* rejected, apiRequest has returned null
C24_Witness ==
  /\ auth.pc = "settled"
  /\ call.pc = "settled"
  /\ call.kind = "json"
  /\ auth.settledBy = "response"
  /\ auth.response = call.response
  /\ auth.response.body.json
  /\ Get(auth.response.body.value, "data") = Null
  /\ auth.outcome.state = "rejected"
  /\ call.outcome = Return(Null)

\* ------------------------------------------------------------ AuthProvider
\* the effect AuthProvider runs when mounted: a stored token together with
\* stored user info restores the session
Mount ==
  /\ ~provider.mounted
  /\ provider' = IF Truthy(LoadToken(storage)) /\ Truthy(storage.userInfo)
                   THEN [mounted |-> TRUE, isAuthenticated |-> TRUE, token |-> LoadToken(storage)]
                   ELSE [mounted |-> TRUE, isAuthenticated |-> FALSE, token |-> Null]
  /\ UNCHANGED <<storage, onUnauthorizedCallback, showLogin, call, lastError, auth, batch, img,
                 endpoint, wardrobe>>

\* handleLogout: authLogout(), setToken(null), setIsAuthenticated(false)
ProviderLogout ==
  /\ provider.mounted
  /\ storage' = ClearUserInfo(ClearToken(storage))
  /\ provider' = [provider EXCEPT !.isAuthenticated = FALSE, !.token = Null]
  /\ UNCHANGED <<onUnauthorizedCallback, showLogin, call, lastError, auth, batch, img, endpoint,
                 wardrobe>>

\* the application: AuthProvider, the auth service and the request client
ProviderNext ==
  \/ Mount
  \/ ProviderLogout
  \/ (provider.mounted /\ SetUnauthorizedCallback(ShowLoginCallback))
  \/ (provider.mounted /\ \E ep \in AuthEndpoints : AuthStart(ep, NoHeaders))
  \/ \E r \in AuthResponses : AuthFetchResolve(r)
  \/ AuthBodyArrive
  \/ AuthFetchReject(<<"Failed", "to", "fetch">>)
  \/ AuthTimerFire
  \/ (provider.mounted /\ StartRequest("json", NoHeaders, "live"))
  \/ \E r \in SessionResponses : FetchResolve(r)
  \/ BodyArrive

ProviderSpec == Init /\ [][ProviderNext]_vars

\* C25: AuthProvider.isAuthenticated is true only while the store holds a
\* token; in particular not after apiRequest has handled a 401
C25_AuthenticatedHasToken ==
  provider.isAuthenticated => Truthy(storage.token)

\* C26: a 401 clears only the token its call was sent with: when the store
\* holds another token by then, saved by a login after the call was issued,
\* that token is still stored after the call has rejected
C26_NewerTokenSurvives401 ==
  [][ (/\ Receives401
       /\ Truthy(storage.token)
       /\ \/ "Authorization" \notin DOMAIN call.headers
          \/ call.headers["Authorization"] # Bearer(storage.token))
      => storage'.token = storage.token ]_vars

\* C27: on every exit path of apiRequest and apiRequestFormData the timer is
\* cleared by the time the call settles: no timer is pending on a settled
\* call, and no abort has fired on a call that settled otherwise
C27_TimerClearedOnExit ==
  call.pc = "settled" =>
    /\ ~call.timerArmed
    /\ call.aborted <=> call.settledBy = "timer"

\* a call that ended in the catch block after a transport failure
C27_Witness ==
  /\ call.pc = "settled"
  /\ call.settledBy = "reject"
  /\ call.kind = "form"
  /\ ~call.timerArmed
  /\ ~call.aborted

\* the call has settled on a 401 response
Settled401 == SettledByResponse /\ call.response.status = 401

\* C28: on a 401 the token and the user info are cleared before the
\* unauthorized callback runs and the callback runs before the call rejects:
\* whenever the callback executes it observes an empty Credential Store
C28_CallbackSeesEmptyStore ==
  (Settled401 /\ call.callbacks > 0) =>
    /\ call.seen # Null
    /\ call.seen.storage = EmptyStorage
    /\ ~call.seen.thrown
    /\ Rejected

\* a 401 on a call sent with a token, with the callback registered
C28_Witness ==
  /\ Settled401
  /\ "Authorization" \in DOMAIN call.headers
  /\ call.invoked = ShowLoginCallback
  /\ call.seen # Null
  /\ call.seen.storage = EmptyStorage

\* ------------------------------------------------------------ Wardrobe list
\* the values of the category filter; "all" is the initial, empty filter
Filters == {"all", "tops", "pants"}

\* the page the backend returns for a query: its records carry the filter and
\* the page they were selected for
PageResult(req, pages) ==
  [records |-> <<[filter |-> req.filter, page |-> req.page]>>,
   current |-> req.page, pages |-> pages]

\* loadClothingList up to its await: the query is built from the filters of
\* the render that made the closure
loadClothingList(w, page, reset) ==
  IF w.isLoadingMore /\ ~reset
    THEN w
    ELSE [w EXCEPT !.isLoadingMore = TRUE,
                   !.inflight = @ \cup {[filter |-> w.filter, page |-> page, reset |-> reset]}]

\* loadClothingList after its await resolved: try body and finally
loadClothingListResolved(w, req, result) ==
  [w EXCEPT !.clothingList = IF req.reset THEN result.records ELSE @ \o result.records,
            !.currentPage = result.current,
            !.hasMore = result.current < result.pages,
            !.isLoadingMore = FALSE,
            !.isLoadingInitial = FALSE,
            !.inflight = @ \ {req}]

\* loadClothingList after its await rejected: catch and finally
loadClothingListRejected(w, req) ==
  [w EXCEPT !.isLoadingMore = FALSE, !.isLoadingInitial = FALSE, !.inflight = @ \ {req}]

\* the effect on mount and on every change of a filter
FilterEffect(w) == loadClothingList([w EXCEPT !.isLoadingInitial = TRUE], 1, TRUE)

WardrobeUnchanged ==
  UNCHANGED <<storage, onUnauthorizedCallback, showLogin, call, lastError, auth, batch, img,
              endpoint, provider>>

WardrobeMount ==
  /\ ~wardrobe.mounted
  /\ wardrobe' = FilterEffect([wardrobe EXCEPT !.mounted = TRUE])
  /\ WardrobeUnchanged

\* the user picks another filter: the state changes and the effect runs
SetFilter(f) ==
  /\ wardrobe.mounted
  /\ f # wardrobe.filter
  /\ Cardinality(wardrobe.inflight) < MaxInFlight
  /\ wardrobe' = FilterEffect([wardrobe EXCEPT !.filter = f])
  /\ WardrobeUnchanged

\* handleScroll near the bottom of the list
handleScroll ==
  /\ wardrobe.mounted
  /\ wardrobe.hasMore /\ ~wardrobe.isLoadingMore /\ ~wardrobe.isLoadingInitial
  /\ Cardinality(wardrobe.inflight) < MaxInFlight
  /\ wardrobe' = loadClothingList(wardrobe, wardrobe.currentPage + 1, FALSE)
  /\ WardrobeUnchanged

handleSaveComplete ==
  /\ wardrobe.mounted
  /\ Cardinality(wardrobe.inflight) < MaxInFlight
  /\ wardrobe' = loadClothingList([wardrobe EXCEPT !.clothingList = <<>>], 1, TRUE)
  /\ WardrobeUnchanged

\* a list request resolves, in whatever order the network delivers
LoadResolve(req, pages) ==
  /\ req \in wardrobe.inflight
  /\ wardrobe' = loadClothingListResolved(wardrobe, req, PageResult(req, pages))
  /\ WardrobeUnchanged

LoadReject(req) ==
  /\ req \in wardrobe.inflight
  /\ wardrobe' = loadClothingListRejected(wardrobe, req)
  /\ WardrobeUnchanged

WardrobeNext ==
  \/ WardrobeMount
  \/ \E f \in Filters : SetFilter(f)
  \/ handleScroll
  \/ handleSaveComplete
  \/ \E req \in wardrobe.inflight, pages \in 1..MaxPages : LoadResolve(req, pages)
  \/ \E req \in wardrobe.inflight : LoadReject(req)

WardrobeSpec == Init /\ [][WardrobeNext]_vars

\* C29: when a filter changes while a load for the previous filters is in
\* flight, the late response of that older load is never written or appended
\* to the list
C29_StaleResponseDropped ==
  [][ \A req \in wardrobe.inflight :
        (/\ req.filter # wardrobe.filter
         /\ wardrobe'.filter = wardrobe.filter
         /\ wardrobe'.inflight = wardrobe.inflight \ {req})
        => wardrobe'.clothingList = wardrobe.clothingList ]_vars

\* the step in which a login or registration call settles
LoginSettles ==
  /\ auth.pc # "settled"
  /\ auth'.pc = "settled"
  /\ auth'.endpoint \in {"login/sms", "login/password", "register/email"}

\* the settled login or registration failed: it rejected, or its response
\* carried no token
LoginFailed(a) ==
  IF a.result.state = "rejected" THEN TRUE ELSE ~Truthy(Get(a.result.value, "token"))

\* C30: a failed login or registration (a rejection for any reason, or a
\* response without a token) leaves the Credential Store exactly as it was,
\* and whenever a login writes the store it saves the token and the user info
\* together
C30_FailedLoginKeepsStore ==
  [][ LoginSettles =>
        /\ LoginFailed(auth') => storage' = storage
        /\ storage' # storage =>
             /\ storage'.token = Get(auth'.result.value, "token")
             /\ Truthy(storage'.token)
             /\ Truthy(storage'.userInfo)
             /\ storage'.userInfo.userId = Get(auth'.result.value, "userId") ]_vars

\* a login that resolved without a token while a session was stored, and a
\* registration that was rejected for the same reason
C30_Witness ==
  /\ auth.pc = "settled"
  /\ auth.endpoint \in {"login/sms", "register/email"}
  /\ auth.settledBy = "response"
  /\ auth.response.status = 200
  /\ LoginFailed(auth)
  /\ Truthy(storage.token)
  /\ Truthy(storage.userInfo)

====
